---- MODULE Spec2Model ----
(***************************************************************************)
(* A model of mod.ts: the script that merges the accident, vehicle,        *)
(* passenger and pedestrian CSV extracts into merged.json.                 *)
(*                                                                         *)
(* Text is a sequence of one-character strings, so that trimming is        *)
(* computed and not assumed.  An object is a function from field names to  *)
(* values; `delete o.f` removes f from its domain.  The content columns of *)
(* a row that take no part in the join are stood for by the row's position *)
(* in its file (field "row").                                              *)
(***************************************************************************)
EXTENDS Integers, Sequences, FiniteSets, TLC

\* ---- bounds of the model ----
MaxVehicles == 2
MaxPassengers == 1
MaxPedestrians == 1
MaxAccidents == 2

\* raw join-key texts of the child extracts and raw identifiers of accidents
RawChildKeys == {<<" ">>, <<" ", "A">>, <<"B">>}
RawAccidentKeys == {<<"A", " ">>, <<" ">>}

fileNames == {"accidents", "vehicles", "passengers", "pedestrians"}
fileOrder == <<"accidents", "vehicles", "passengers", "pedestrians">>

VARIABLES
  pc,                      \* position of main
  missing,                 \* the required files fs.exists reported absent
  console,                 \* what console.error printed, in order
  exitStatus,              \* -1 while running, then the status the process ended with
  fatal,                   \* the fatal condition that ended the run, or "none"
  vehiclesData, passengersData, pedestriansData,
  vehiclesByAccidentId, passengersByAccidentId, pedestriansByAccidentId,
  readCount,               \* reads issued on the accidents file, header included
  outputFile,              \* "none", "open" or "closed"
  closeCount,              \* calls of outputFile.close()
  written,                 \* chunks the sink has accepted, in order
  inflight,                \* the write issued and not yet settled, as a sequence
  isFirst,
  pulled,                  \* the accident rows the stream has yielded, in order
  jsonString,              \* the element serialized for the current row
  streamDone,              \* TRUE once the accident stream reported its end
  badWrite,                \* TRUE once a write reached a closed or absent sink
  \* -- the formatters applied to one raw column value --
  val,                     \* the raw value: [defined, text]
  formatted,               \* "no", "accident" or "vehicle": the formatter applied
  numericField,            \* the float field the formatter produced
  idField,                 \* the identifier field the formatter produced
  \* -- convertJalaliToGregorian applied to one date text --
  dateOnly,                \* the date portion: its three numbers, as texts
  timeMatch,               \* the groups the time pattern matched in the time portion
  converted,               \* "no", "date" or "time": the conversion applied
  resultDateOnly,          \* the result for the date portion with no time
  resultWithTime           \* the result for the date portion with the time

mainVars == <<pc, missing, console, exitStatus, fatal, vehiclesData, passengersData,
              pedestriansData, vehiclesByAccidentId, passengersByAccidentId,
              pedestriansByAccidentId, readCount, outputFile, closeCount, written,
              inflight, isFirst, pulled, jsonString, streamDone, badWrite>>

numVars == <<val, formatted, numericField, idField>>

dateVars == <<dateOnly, timeMatch, converted, resultDateOnly, resultWithTime>>

vars == <<mainVars, numVars, dateVars>>

\* ---- text ----
IsSpace(c) == c = " "

RECURSIVE TrimStart(_)
TrimStart(s) ==
  IF s # <<>> /\ IsSpace(Head(s)) THEN TrimStart(Tail(s)) ELSE s

RECURSIVE TrimEnd(_)
TrimEnd(s) ==
  IF s # <<>> /\ IsSpace(s[Len(s)]) THEN TrimEnd(SubSeq(s, 1, Len(s) - 1)) ELSE s

\* String.prototype.trim
Trim(s) == TrimEnd(TrimStart(s))

\* a join key compared as read, without trim()
JoinKeyUntrimmed(raw) == raw

\* String(x || "").trim() of a CSV column, which is always a string
JoinKey(raw) == Trim(IF raw = <<>> THEN <<>> ELSE raw)

\* ---- objects ----
SetField(o, f, v) == [k \in DOMAIN o \cup {f} |-> IF k = f THEN v ELSE o[k]]
DeleteField(o, f) == [k \in DOMAIN o \ {f} |-> o[k]]

\* JSON.stringify: the text of a value; a deleted field is not part of it
Stringify(v) == [kind |-> "json", value |-> v]
\* encoder.encode of a literal
Literal(s) == [kind |-> "text", value |-> s]

\* ---- formatters (the fields that take part in the merge) ----
formatVehicle(v) ==
  [row |-> v.row, accident_id |-> v.accident_id, vehicle_id |-> v.vehicle_id]
formatPassenger(p) == [row |-> p.row]
formatPedestrian(p) == [row |-> p.row]
formatAccident(a) == [row |-> a.row, accident_id |-> a.accident_id]

\* ---- numbers ----
\* A raw column value: a text, or undefined when the row has no such column.
Undefined == [defined |-> FALSE, text |-> <<>>]
Text(t) == [defined |-> TRUE, text |-> t]

\* A number is m * 10^e; NaN is not a number.
Number(m, e) == [nan |-> FALSE, m |-> m, e |-> e]
NaN == [nan |-> TRUE, m |-> 0, e |-> 0]
Zero == Number(0, 0)
isNaN(x) == x.nan

DigitChars == <<"0", "1", "2", "3", "4", "5", "6", "7", "8", "9">>
IsDigit(c) == \E d \in 1..Len(DigitChars) : DigitChars[d] = c
DigitOf(c) == (CHOOSE d \in 1..Len(DigitChars) : DigitChars[d] = c) - 1

\* the longest run of digits a text starts with
RECURSIVE DigitRun(_)
DigitRun(s) ==
  IF s # <<>> /\ IsDigit(Head(s)) THEN <<Head(s)>> \o DigitRun(Tail(s)) ELSE <<>>

RECURSIVE DigitsValue(_)
DigitsValue(d) ==
  IF d = <<>> THEN 0
  ELSE DigitsValue(SubSeq(d, 1, Len(d) - 1)) * 10 + DigitOf(d[Len(d)])

\* parseFloat of a text: leading white space is skipped, then the longest
\* prefix that is a decimal literal is the value; what follows is ignored.
parseFloat(s) ==
  LET t == TrimStart(s)
      signed == t # <<>> /\ Head(t) \in {"+", "-"}
      body == IF signed THEN Tail(t) ELSE t
      int == DigitRun(body)
      rest == SubSeq(body, Len(int) + 1, Len(body))
      frac == IF rest # <<>> /\ Head(rest) = "." THEN DigitRun(Tail(rest)) ELSE <<>>
      mag == DigitsValue(int \o frac)
  IN IF int = <<>> /\ frac = <<>> THEN NaN
     ELSE Number(IF signed /\ Head(t) = "-" THEN 0 - mag ELSE mag, 0 - Len(frac))

\* parseInt of a text, radix 10: leading white space is skipped, then the
\* longest prefix of an optional sign and digits is the value.
parseInt(s) ==
  LET t == TrimStart(s)
      signed == t # <<>> /\ Head(t) \in {"+", "-"}
      body == IF signed THEN Tail(t) ELSE t
      int == DigitRun(body)
      mag == DigitsValue(int)
  IN IF int = <<>> THEN NaN
     ELSE Number(IF signed /\ Head(t) = "-" THEN 0 - mag ELSE mag, 0)

\* a parseNumeric that returns what parseFloat gave, NaN included
parseNumericUnchecked(v) ==
  IF ~v.defined \/ v.text = <<>> THEN Zero ELSE parseFloat(v.text)

\* formatAccident, lines 232-236
formatAccident_parseNumeric(v) ==
  IF ~v.defined \/ v.text = <<>> THEN Zero
  ELSE LET parsed == parseFloat(v.text) IN IF isNaN(parsed) THEN Zero ELSE parsed

\* formatAccident, lines 239-243
formatAccident_parseId(v) ==
  IF ~v.defined \/ v.text = <<>> THEN Zero
  ELSE LET parsed == parseInt(v.text) IN IF isNaN(parsed) THEN Zero ELSE parsed

\* formatVehicle, lines 305-309
formatVehicle_parseNumeric(v) ==
  IF ~v.defined \/ v.text = <<>> THEN Zero
  ELSE LET parsed == parseFloat(v.text) IN IF isNaN(parsed) THEN Zero ELSE parsed

\* formatVehicle, lines 312-316
formatVehicle_parseId(v) ==
  IF ~v.defined \/ v.text = <<>> THEN Zero
  ELSE LET parsed == parseInt(v.text) IN IF isNaN(parsed) THEN Zero ELSE parsed

\* ---- dates ----
\* integer division and remainder as JavaScript's ~~(a / b) and a - ~~(a / b) * b
Div(a, b) == IF a >= 0 THEN a \div b ELSE 0 - ((0 - a) \div b)
Mod(a, b) == a - Div(a, b) * b

\* The Jalali calendar of moment-jalaali (jalaali-js): the years at which the
\* 33-year leap cycle breaks.
breaks == <<-61, 9, 38, 199, 426, 686, 756, 818, 1111, 1181, 1210, 1635, 2060, 2097,
            2192, 2262, 2324, 2394, 2456, 3178>>

\* the loop of jalCal over the breaks: the last break at or before jy, the
\* jump to the next one, and the leap years counted up to that break
RECURSIVE jalCalScan(_, _, _, _)
jalCalScan(jy, i, jp, leapJ) ==
  LET jm == breaks[i]
      jump == jm - jp
  IN IF jy < jm \/ i = Len(breaks) THEN [jp |-> jp, jump |-> jump, leapJ |-> leapJ]
     ELSE jalCalScan(jy, i + 1, jm, leapJ + Div(jump, 33) * 8 + Div(Mod(jump, 33), 4))

\* jalCal: the Gregorian year and March day of Farvardin 1 of Jalali year jy,
\* and the years since the last leap year (0 for a leap year)
jalCal(jy) ==
  LET scan == jalCalScan(jy, 2, breaks[1], -14)
      gy == jy + 621
      n0 == jy - scan.jp
      leapJ0 == scan.leapJ + Div(n0, 33) * 8 + Div(Mod(n0, 33) + 3, 4)
      leapJ == IF Mod(scan.jump, 33) = 4 /\ scan.jump - n0 = 4 THEN leapJ0 + 1 ELSE leapJ0
      leapG == Div(gy, 4) - Div((Div(gy, 100) + 1) * 3, 4) - 150
      n == IF scan.jump - n0 < 6 THEN n0 - scan.jump + Div(scan.jump + 4, 33) * 33 ELSE n0
      leap0 == Mod(Mod(n + 1, 33) - 1, 4)
  IN [leap |-> IF leap0 = -1 THEN 4 ELSE leap0, gy |-> gy, march |-> 20 + leapJ - leapG]

\* the Julian day number of a Gregorian date, and back
g2d(gy, gm, gd) ==
  LET d == Div((gy + Div(gm - 8, 6) + 100100) * 1461, 4)
             + Div(153 * Mod(gm + 9, 12) + 2, 5) + gd - 34840408
  IN d - Div(Div(gy + 100100 + Div(gm - 8, 6), 100) * 3, 4) + 752

d2g(jdn) ==
  LET j == 4 * jdn + 139361631 + Div(Div(4 * jdn + 183187720, 146097) * 3, 4) * 4 - 3908
      i == Div(Mod(j, 1461), 4) * 5 + 308
      gd == Div(Mod(i, 153), 5) + 1
      gm == Mod(Div(i, 153), 12) + 1
  IN [gy |-> Div(j, 1461) - 100100 + Div(8 - gm, 6), gm |-> gm, gd |-> gd]

\* the Julian day number of a Jalali date
j2d(jy, jm, jd) ==
  g2d(jalCal(jy).gy, 3, jalCal(jy).march) + (jm - 1) * 31 - Div(jm, 7) * (jm - 7) + jd - 1

jDaysInMonth(jy, jm) ==
  IF jm <= 6 THEN 31 ELSE IF jm <= 11 THEN 30 ELSE IF jalCal(jy).leap = 0 THEN 30 ELSE 29

\* ---- convertJalaliToGregorian, lines 126-225 ----
\* the groups of the time pattern of line 181 (hour, minute, second, marker),
\* or no match: the time portion is absent or the pattern does not match it
TimeGroups(h, m, s, marker) == [matched |-> TRUE, h |-> h, m |-> m, s |-> s, marker |-> marker]
NoTime == [matched |-> FALSE, h |-> <<>>, m |-> <<>>, s |-> <<>>, marker |-> ""]

NoResult == [kind |-> "none"]
\* the text returned as it came, line 220
Unchanged == [kind |-> "unchanged"]

\* String.prototype.toUpperCase on the marker, line 186
toUpperCase(marker) ==
  IF marker = "am" THEN "AM" ELSE IF marker = "pm" THEN "PM" ELSE marker

\* n.toString().padStart(2, '0'), lines 207-208
padStart2(n) ==
  IF n < 10 THEN <<"0", DigitChars[n + 1]>>
  ELSE <<DigitChars[Div(n, 10) + 1], DigitChars[Mod(n, 10) + 1]>>

months == <<"Jan", "Feb", "Mar", "Apr", "May", "Jun", "Jul", "Aug", "Sep", "Oct", "Nov", "Dec">>

\* moment(dateOnly, format) for the text D/D/YYYY: the month-first layouts
\* (jMM/jDD/jYYYY, jM/jD/jYYYY) read <<month, day, year>>, the day-first ones
\* <<day, month, year>>; the year-first layouts read the first number as the
\* year, which the test of line 173 then rejects.  The order is that of
\* lines 157-166.
Layouts(d) ==
  <<[jy |-> parseInt(d[3]).m, jm |-> parseInt(d[1]).m, jd |-> parseInt(d[2]).m],
    [jy |-> parseInt(d[3]).m, jm |-> parseInt(d[2]).m, jd |-> parseInt(d[1]).m]>>

\* momentDate.isValid(), line 170, and the test of the year, line 173
LayoutAccepted(l) ==
  /\ l.jm \in 1..12
  /\ l.jd \in 1..jDaysInMonth(l.jy, l.jm)
  /\ d2g(j2d(l.jy, l.jm, l.jd)).gy >= 1900
  /\ d2g(j2d(l.jy, l.jm, l.jd)).gy <= 2100

\* the hour on the 24-hour clock, lines 188-189
To24Hour(hours, ampm) ==
  IF ampm = "PM" /\ hours # 12 THEN hours + 12
  ELSE IF ampm = "AM" /\ hours = 12 THEN 0
  ELSE hours

\* a Date as the day (Julian day number) and the second of the day, local
\* time, in a zone without daylight saving
\* Date.prototype.setHours(hours, minutes, seconds, 0), line 191: the time is
\* counted from the midnight of the day, and what exceeds the day moves the
\* date on
setHours(jsDate, hours, minutes, seconds) ==
  LET total == hours * 3600 + minutes * 60 + seconds
  IN [jdn |-> jsDate.jdn + Div(total, 86400), tod |-> Mod(total, 86400)]

\* lines 178-196
ApplyTime(jsDate, time) ==
  IF ~time.matched THEN jsDate
  ELSE setHours(jsDate,
                To24Hour(parseInt(time.h).m, toUpperCase(time.marker)),
                parseInt(time.m).m,
                parseInt(time.s).m)

\* lines 198-214
FormatDate(jsDate) ==
  LET g == d2g(jsDate.jdn)
      hours == Div(jsDate.tod, 3600)
  IN [kind |-> "date",
      month |-> months[g.gm],
      day |-> g.gd,
      year |-> g.gy,
      hours |-> IF Mod(hours, 12) = 0 THEN 12 ELSE Mod(hours, 12),
      minutes |-> padStart2(Mod(Div(jsDate.tod, 60), 60)),
      seconds |-> padStart2(Mod(jsDate.tod, 60)),
      ampm |-> IF hours >= 12 THEN "PM" ELSE "AM"]

\* the loop of lines 168-217 on a Jalali date text and its time portion
convertJalaliToGregorian(d, time) ==
  LET accepted == {i \in 1..Len(Layouts(d)) : LayoutAccepted(Layouts(d)[i])}
  IN IF accepted = {} THEN Unchanged
     ELSE LET l == Layouts(d)[CHOOSE i \in accepted : \A k \in accepted : i <= k]
          IN FormatDate(ApplyTime([jdn |-> j2d(l.jy, l.jm, l.jd), tod |-> 0], time))

\* ---- inputs ----
SeqsUpTo(S, n) == UNION {[1..k -> S] : k \in 0..n}

VehicleRows(keys) ==
  [i \in 1..Len(keys) |-> [row |-> i, vehicle_id |-> keys[i], accident_id |-> <<>>]]
PassengerRows(keys) == [i \in 1..Len(keys) |-> [row |-> i, passenger_id |-> keys[i]]]
PedestrianRows(keys) == [i \in 1..Len(keys) |-> [row |-> i, pedestrian_id |-> keys[i]]]

\* ---- lookup maps ----
EmptyMap == [k \in {} |-> <<>>]
MapPush(m, key, e) ==
  [k \in DOMAIN m \cup {key} |->
     IF k = key THEN (IF key \in DOMAIN m THEN Append(m[key], e) ELSE <<e>>) ELSE m[k]]
\* map.get(key) || []
GetOrEmpty(m, key) == IF key \in DOMAIN m THEN m[key] ELSE <<>>

\* the loop `for (const x of data) { key = ...; if (!key) continue; push }`
\* over pairs <<key, formatted entity>>
RECURSIVE GroupFrom(_, _, _)
GroupFrom(m, pairs, i) ==
  IF i > Len(pairs) THEN m
  ELSE IF pairs[i][1] = <<>> THEN GroupFrom(m, pairs, i + 1)
  ELSE GroupFrom(MapPush(m, pairs[i][1], pairs[i][2]), pairs, i + 1)

VehicleIndex(data) ==
  GroupFrom(EmptyMap,
            [i \in 1..Len(data) |-> <<JoinKey(data[i].vehicle_id), formatVehicle(data[i])>>], 1)
PassengerIndex(data) ==
  GroupFrom(EmptyMap,
            [i \in 1..Len(data) |-> <<JoinKey(data[i].passenger_id), formatPassenger(data[i])>>], 1)
PedestrianIndex(data) ==
  GroupFrom(EmptyMap,
            [i \in 1..Len(data) |-> <<JoinKey(data[i].pedestrian_id), formatPedestrian(data[i])>>], 1)

InitMain ==
  /\ pc = "checkFiles"
  /\ missing = {}
  /\ console = <<>>
  /\ exitStatus = -1
  /\ fatal = "none"
  /\ vehiclesData = <<>> /\ passengersData = <<>> /\ pedestriansData = <<>>
  /\ vehiclesByAccidentId = EmptyMap
  /\ passengersByAccidentId = EmptyMap
  /\ pedestriansByAccidentId = EmptyMap
  /\ readCount = 0
  /\ outputFile = "none"
  /\ closeCount = 0
  /\ written = <<>>
  /\ inflight = <<>>
  /\ isFirst = TRUE
  /\ pulled = <<>>
  /\ jsonString = <<>>
  /\ streamDone = FALSE
  /\ badWrite = FALSE

\* no column value is being formatted
NumIdle ==
  /\ val = Undefined
  /\ formatted = "no"
  /\ numericField = Zero
  /\ idField = Zero

\* no date text is being converted
DateIdle ==
  /\ dateOnly = <<>>
  /\ timeMatch = NoTime
  /\ converted = "no"
  /\ resultDateOnly = NoResult
  /\ resultWithTime = NoResult

Init == InitMain /\ NumIdle /\ DateIdle

\* ---- main, lines 432-439: the four files must exist ----
FirstMissing(absent) ==
  fileOrder[CHOOSE i \in 1..4 :
              /\ fileOrder[i] \in absent
              /\ \A j \in 1..(i - 1) : fileOrder[j] \notin absent]

\* On a missing file main prints and returns (line 436): the process then
\* ends with the status of a normal end, 0.
CheckFiles ==
  /\ UNCHANGED <<numVars, dateVars>>
  /\ pc = "checkFiles"
  /\ \E absent \in SUBSET fileNames :
       /\ missing' = absent
       /\ IF absent # {}
          THEN /\ console' = Append(console, <<"FATAL: Required CSV file not found", FirstMissing(absent)>>)
               /\ fatal' = "missingInput"
               /\ pc' = "done"
               /\ exitStatus' = 0
          ELSE /\ pc' = "loadVehicles"
               /\ UNCHANGED <<console, fatal, exitStatus>>
  /\ UNCHANGED <<vehiclesData, passengersData, pedestriansData, vehiclesByAccidentId,
                 passengersByAccidentId, pedestriansByAccidentId, readCount, outputFile,
                 closeCount, written, inflight, isFirst, pulled, jsonString, streamDone,
                 badWrite>>

\* ---- readCsvFile, lines 54-86 ----
\* The catch of readCsvFile: the file could not be read, or its header line
\* gave no columns.  It prints and calls Deno.exit(1).
\* a catch that prints and lets main go on with no rows
readCsvFileFailsNoExit(file, why) ==
  /\ console' = Append(console, <<"Error processing CSV file", file, why>>)
  /\ fatal' = "lookupLoad"
  /\ pc' = "getCsvHeaders"
  /\ UNCHANGED exitStatus

readCsvFileFails(file, why) ==
  /\ console' = Append(console, <<"Error processing CSV file", file, why>>)
  /\ fatal' = "lookupLoad"
  /\ exitStatus' = 1
  /\ pc' = "done"

LoadFailures == {"cannot read", "Could not parse headers"}

LoadVehicles ==
  /\ UNCHANGED <<numVars, dateVars>>
  /\ pc = "loadVehicles"
  /\ \/ /\ \E why \in LoadFailures : readCsvFileFails("vehicles", why)
        /\ UNCHANGED vehiclesData
     \/ /\ \E keys \in SeqsUpTo(RawChildKeys, MaxVehicles) : vehiclesData' = VehicleRows(keys)
        /\ pc' = "loadPassengers"
        /\ UNCHANGED <<console, fatal, exitStatus>>
  /\ UNCHANGED <<missing, passengersData, pedestriansData, vehiclesByAccidentId,
                 passengersByAccidentId, pedestriansByAccidentId, readCount, outputFile,
                 closeCount, written, inflight, isFirst, pulled, jsonString, streamDone,
                 badWrite>>

LoadPassengers ==
  /\ UNCHANGED <<numVars, dateVars>>
  /\ pc = "loadPassengers"
  /\ \/ /\ \E why \in LoadFailures : readCsvFileFails("passengers", why)
        /\ UNCHANGED passengersData
     \/ /\ \E keys \in SeqsUpTo(RawChildKeys, MaxPassengers) : passengersData' = PassengerRows(keys)
        /\ pc' = "loadPedestrians"
        /\ UNCHANGED <<console, fatal, exitStatus>>
  /\ UNCHANGED <<missing, vehiclesData, pedestriansData, vehiclesByAccidentId,
                 passengersByAccidentId, pedestriansByAccidentId, readCount, outputFile,
                 closeCount, written, inflight, isFirst, pulled, jsonString, streamDone,
                 badWrite>>

LoadPedestrians ==
  /\ UNCHANGED <<numVars, dateVars>>
  /\ pc = "loadPedestrians"
  /\ \/ /\ \E why \in LoadFailures : readCsvFileFails("pedestrians", why)
        /\ UNCHANGED pedestriansData
     \/ /\ \E keys \in SeqsUpTo(RawChildKeys, MaxPedestrians) : pedestriansData' = PedestrianRows(keys)
        /\ pc' = "buildLookups"
        /\ UNCHANGED <<console, fatal, exitStatus>>
  /\ UNCHANGED <<missing, vehiclesData, passengersData, vehiclesByAccidentId,
                 passengersByAccidentId, pedestriansByAccidentId, readCount, outputFile,
                 closeCount, written, inflight, isFirst, pulled, jsonString, streamDone,
                 badWrite>>

\* ---- main, lines 448-474: the three lookup maps, built without an await ----
BuildLookups ==
  /\ UNCHANGED <<numVars, dateVars>>
  /\ pc = "buildLookups"
  /\ vehiclesByAccidentId' = VehicleIndex(vehiclesData)
  /\ passengersByAccidentId' = PassengerIndex(passengersData)
  /\ pedestriansByAccidentId' = PedestrianIndex(pedestriansData)
  /\ pc' = "getCsvHeaders"
  /\ UNCHANGED <<missing, console, exitStatus, fatal, vehiclesData, passengersData,
                 pedestriansData, readCount, outputFile, closeCount, written, inflight,
                 isFirst, pulled, jsonString, streamDone, badWrite>>

\* ---- the rejection of main(), lines 550-552 ----
\* A throw outside the try block of main is caught by main().catch, which
\* prints; the process then ends with status 0.
UnexpectedError(what) ==
  /\ console' = Append(console, <<"An unexpected error occurred", what>>)
  /\ fatal' = "unexpected"
  /\ exitStatus' = 0
  /\ pc' = "done"

\* ---- getCsvHeaders, lines 94-118, called at line 477 ----
GetCsvHeaders ==
  /\ UNCHANGED <<numVars, dateVars>>
  /\ pc = "getCsvHeaders"
  /\ readCount' = readCount + 1
  /\ \/ UnexpectedError("Could not read headers")
     \/ /\ pc' = "openAccidents"
        /\ UNCHANGED <<console, fatal, exitStatus>>
  /\ UNCHANGED <<missing, vehiclesData, passengersData, pedestriansData,
                 vehiclesByAccidentId, passengersByAccidentId, pedestriansByAccidentId,
                 outputFile, closeCount, written, inflight, isFirst, pulled, jsonString,
                 streamDone, badWrite>>

\* ---- main, lines 480-482: Deno.open of the accidents file ----
OpenAccidents ==
  /\ UNCHANGED <<numVars, dateVars>>
  /\ pc = "openAccidents"
  /\ \/ UnexpectedError("Deno.open")
     \/ /\ pc' = "createOutput"
        /\ UNCHANGED <<console, fatal, exitStatus>>
  /\ UNCHANGED <<missing, vehiclesData, passengersData, pedestriansData,
                 vehiclesByAccidentId, passengersByAccidentId, pedestriansByAccidentId,
                 readCount, outputFile, closeCount, written, inflight, isFirst, pulled,
                 jsonString, streamDone, badWrite>>

\* ---- main, line 483: Deno.create("merged.json") ----
CreateOutput ==
  /\ UNCHANGED <<numVars, dateVars>>
  /\ pc = "createOutput"
  /\ \/ /\ UnexpectedError("Deno.create")
        /\ UNCHANGED outputFile
     \/ /\ outputFile' = "open"
        /\ pc' = "writeOpen"
        /\ UNCHANGED <<console, fatal, exitStatus>>
  /\ UNCHANGED <<missing, vehiclesData, passengersData, pedestriansData,
                 vehiclesByAccidentId, passengersByAccidentId, pedestriansByAccidentId,
                 readCount, closeCount, written, inflight, isFirst, pulled, jsonString,
                 streamDone, badWrite>>

\* ---- outputFile.write ----
\* a write that is issued and not awaited
NotAwaited == TRUE

\* `await outputFile.write(x)`: the write is issued, and main goes on only
\* when it has settled.
Awaited == inflight = <<>>

IssueWrite(chunk) ==
  /\ inflight' = Append(inflight, chunk)
  /\ badWrite' = (badWrite \/ outputFile # "open")

\* a close placed at the end of the try block instead of in finally
FinallyWithoutClose ==
  /\ outputFile' = IF pc = "success" THEN "closed" ELSE outputFile
  /\ closeCount' = IF pc = "success" THEN closeCount + 1 ELSE closeCount
  /\ pc' = "done"
  /\ exitStatus' = 0

\* the finally block, lines 544-547, after which main returns and the
\* process ends
Finally ==
  /\ outputFile' = "closed"
  /\ closeCount' = closeCount + 1
  /\ pc' = "done"
  /\ exitStatus' = 0

\* the catch block, lines 542-543; the finally block follows it without an
\* await in between
Catch(what) ==
  /\ console' = Append(console, <<"Error during file write operation", what>>)
  /\ Finally

\* a rejected write that is recorded and stepped over, the loop going on
SettleWriteSwallowed ==
  /\ UNCHANGED <<numVars, dateVars>>
  /\ inflight # <<>>
  /\ outputFile = "open"
  /\ \/ /\ written' = Append(written, Head(inflight))
        /\ inflight' = Tail(inflight)
        /\ UNCHANGED <<pc, console, fatal>>
     \/ /\ pc # "done"
        /\ inflight' = Tail(inflight)
        /\ fatal' = "write"
        /\ console' = Append(console, <<"Error during file write operation", "write">>)
        /\ UNCHANGED <<pc, written>>
  /\ UNCHANGED <<missing, exitStatus, vehiclesData, passengersData, pedestriansData,
                 vehiclesByAccidentId, passengersByAccidentId, pedestriansByAccidentId,
                 readCount, outputFile, closeCount, isFirst, pulled, jsonString,
                 streamDone, badWrite>>

\* The issued write settles: the sink takes the chunk, or the write rejects
\* and the rejection is thrown at the await, inside the try block.
SettleWrite ==
  /\ UNCHANGED <<numVars, dateVars>>
  /\ inflight # <<>>
  /\ outputFile = "open"
  /\ \/ /\ written' = Append(written, Head(inflight))
        /\ inflight' = Tail(inflight)
        /\ UNCHANGED <<pc, console, fatal, exitStatus, outputFile, closeCount>>
     \/ /\ pc # "done"
        /\ inflight' = Tail(inflight)
        /\ fatal' = "write"
        /\ Catch("write")
        /\ UNCHANGED written
  /\ UNCHANGED <<missing, vehiclesData, passengersData, pedestriansData,
                 vehiclesByAccidentId, passengersByAccidentId, pedestriansByAccidentId,
                 readCount, isFirst, pulled, jsonString, streamDone, badWrite>>

\* ---- main, line 488 ----
WriteOpen ==
  /\ UNCHANGED <<numVars, dateVars>>
  /\ pc = "writeOpen"
  /\ IssueWrite(Literal("[\n"))
  /\ pc' = "pull"
  /\ UNCHANGED <<missing, console, exitStatus, fatal, vehiclesData, passengersData,
                 pedestriansData, vehiclesByAccidentId, passengersByAccidentId,
                 pedestriansByAccidentId, readCount, outputFile, closeCount, written,
                 isFirst, pulled, jsonString, streamDone>>

\* ---- main, line 503: the next row of the accident stream ----
\* a separator before every element, the first included
SeparatorAlways == TRUE

\* the separator is due when this is not the first row, line 504
NeedsSeparator == ~isFirst

Pull ==
  /\ UNCHANGED <<numVars, dateVars>>
  /\ pc = "pull"
  /\ Awaited
  /\ readCount' = readCount + 1
  /\ \/ /\ Len(pulled) < MaxAccidents
        /\ \E id \in RawAccidentKeys :
             pulled' = Append(pulled, [row |-> Len(pulled) + 1, accident_id |-> id])
        /\ pc' = IF NeedsSeparator THEN "writeSeparator" ELSE "merge"
        /\ UNCHANGED <<console, fatal, streamDone, exitStatus, outputFile, closeCount>>
     \/ /\ streamDone' = TRUE
        /\ pc' = "writeClose"
        /\ UNCHANGED <<console, fatal, pulled, exitStatus, outputFile, closeCount>>
     \/ /\ fatal' = "read"
        /\ Catch("read")
        /\ UNCHANGED <<pulled, streamDone>>
  /\ UNCHANGED <<missing, vehiclesData, passengersData, pedestriansData,
                 vehiclesByAccidentId, passengersByAccidentId, pedestriansByAccidentId,
                 written, inflight, isFirst, jsonString, badWrite>>

\* ---- main, lines 504-506 ----
WriteSeparator ==
  /\ UNCHANGED <<numVars, dateVars>>
  /\ pc = "writeSeparator"
  /\ IssueWrite(Literal(",\n"))
  /\ pc' = "merge"
  /\ UNCHANGED <<missing, console, exitStatus, fatal, vehiclesData, passengersData,
                 pedestriansData, vehiclesByAccidentId, passengersByAccidentId,
                 pedestriansByAccidentId, readCount, outputFile, closeCount, written,
                 isFirst, pulled, jsonString, streamDone>>

\* ---- main, lines 508-534: format, merge and serialize, without an await ----
\* the passengers given to every vehicle of the accident
AttachPassengersToAll(accidentVehicles, accidentPassengers) ==
  [i \in 1..Len(accidentVehicles) |->
     DeleteField(
       DeleteField(SetField(accidentVehicles[i], "passengerDTOS", accidentPassengers),
                   "accident_id"),
       "vehicle_id")]

\* lines 517-527: the vehicles of the accident, changed in place
AttachPassengers(accidentVehicles, accidentPassengers) ==
  [i \in 1..Len(accidentVehicles) |->
     DeleteField(
       DeleteField(
         SetField(accidentVehicles[i], "passengerDTOS",
                  IF i = 1 THEN accidentPassengers ELSE <<>>),
         "accident_id"),
       "vehicle_id")]

\* lines 529-531
AttachChildren(accident, vehicles, pedestrians) ==
  DeleteField(
    SetField(SetField(accident, "vehicleDTOS", vehicles), "pedestrianDTOS", pedestrians),
    "accident_id")

\* lines 533-534
Envelope(accident) == Stringify([accident_json |-> Stringify(accident)])

\* a merge that removes the passengers it has attached from their lookup map
MergeConsuming ==
  /\ UNCHANGED <<numVars, dateVars>>
  /\ pc = "merge"
  /\ Awaited
  /\ LET rawAccident == pulled[Len(pulled)]
         accident == formatAccident(rawAccident)
         accidentId == JoinKey(accident.accident_id)
         accidentVehicles == GetOrEmpty(vehiclesByAccidentId, accidentId)
         accidentPassengers == GetOrEmpty(passengersByAccidentId, accidentId)
         merged == AttachPassengers(accidentVehicles, accidentPassengers)
     IN /\ vehiclesByAccidentId' =
             IF accidentId \in DOMAIN vehiclesByAccidentId
             THEN [vehiclesByAccidentId EXCEPT ![accidentId] = merged]
             ELSE vehiclesByAccidentId
        /\ jsonString' =
             <<Envelope(AttachChildren(accident, merged,
                                       GetOrEmpty(pedestriansByAccidentId, accidentId)))>>
        /\ passengersByAccidentId' =
             [k \in DOMAIN passengersByAccidentId \ {accidentId} |-> passengersByAccidentId[k]]
  /\ pc' = "writeElement"
  /\ UNCHANGED <<missing, console, exitStatus, fatal, vehiclesData, passengersData,
                 pedestriansData, pedestriansByAccidentId,
                 readCount, outputFile, closeCount, written, inflight, isFirst, pulled,
                 streamDone, badWrite>>

Merge ==
  /\ UNCHANGED <<numVars, dateVars>>
  /\ pc = "merge"
  /\ Awaited
  /\ LET rawAccident == pulled[Len(pulled)]
         accident == formatAccident(rawAccident)
         accidentId == JoinKey(accident.accident_id)
         accidentVehicles == GetOrEmpty(vehiclesByAccidentId, accidentId)
         accidentPassengers == GetOrEmpty(passengersByAccidentId, accidentId)
         merged == AttachPassengers(accidentVehicles, accidentPassengers)
     IN /\ vehiclesByAccidentId' =
             IF accidentId \in DOMAIN vehiclesByAccidentId
             THEN [vehiclesByAccidentId EXCEPT ![accidentId] = merged]
             ELSE vehiclesByAccidentId
        /\ jsonString' =
             <<Envelope(AttachChildren(accident, merged,
                                       GetOrEmpty(pedestriansByAccidentId, accidentId)))>>
  /\ pc' = "writeElement"
  /\ UNCHANGED <<missing, console, exitStatus, fatal, vehiclesData, passengersData,
                 pedestriansData, passengersByAccidentId, pedestriansByAccidentId,
                 readCount, outputFile, closeCount, written, inflight, isFirst, pulled,
                 streamDone, badWrite>>

\* ---- main, line 535 ----
WriteElement ==
  /\ UNCHANGED <<numVars, dateVars>>
  /\ pc = "writeElement"
  /\ IssueWrite(Head(jsonString))
  /\ pc' = "endOfBody"
  /\ UNCHANGED <<missing, console, exitStatus, fatal, vehiclesData, passengersData,
                 pedestriansData, vehiclesByAccidentId, passengersByAccidentId,
                 pedestriansByAccidentId, readCount, outputFile, closeCount, written,
                 isFirst, pulled, jsonString, streamDone>>

\* ---- main, line 537 ----
EndOfBody ==
  /\ UNCHANGED <<numVars, dateVars>>
  /\ pc = "endOfBody"
  /\ Awaited
  /\ isFirst' = FALSE
  /\ pc' = "pull"
  /\ UNCHANGED <<missing, console, exitStatus, fatal, vehiclesData, passengersData,
                 pedestriansData, vehiclesByAccidentId, passengersByAccidentId,
                 pedestriansByAccidentId, readCount, outputFile, closeCount, written,
                 inflight, pulled, jsonString, streamDone, badWrite>>

\* ---- main, line 540 ----
WriteClose ==
  /\ UNCHANGED <<numVars, dateVars>>
  /\ pc = "writeClose"
  /\ IssueWrite(Literal("\n]\n"))
  /\ pc' = "success"
  /\ UNCHANGED <<missing, console, exitStatus, fatal, vehiclesData, passengersData,
                 pedestriansData, vehiclesByAccidentId, passengersByAccidentId,
                 pedestriansByAccidentId, readCount, outputFile, closeCount, written,
                 isFirst, pulled, jsonString, streamDone>>

\* ---- main, lines 541-548: the closing write has settled ----
Success ==
  /\ UNCHANGED <<numVars, dateVars>>
  /\ pc = "success"
  /\ Awaited
  /\ Finally
  /\ UNCHANGED <<missing, console, fatal, vehiclesData, passengersData, pedestriansData,
                 vehiclesByAccidentId, passengersByAccidentId, pedestriansByAccidentId,
                 readCount, written, inflight, isFirst, pulled, jsonString, streamDone,
                 badWrite>>

Next ==
  \/ CheckFiles
  \/ LoadVehicles
  \/ LoadPassengers
  \/ LoadPedestrians
  \/ BuildLookups
  \/ GetCsvHeaders
  \/ OpenAccidents
  \/ CreateOutput
  \/ WriteOpen
  \/ SettleWrite
  \/ Pull
  \/ WriteSeparator
  \/ Merge
  \/ WriteElement
  \/ EndOfBody
  \/ WriteClose
  \/ Success

Spec == Init /\ [][Next]_vars

\* ---- the formatters on one raw column value ----
MaxTextLen == 3
TextChars == {"1", "5", ".", "-", "a", " "}
RawValues == {Undefined} \cup {Text(t) : t \in SeqsUpTo(TextChars, MaxTextLen)}

InitFormat ==
  /\ InitMain
  /\ DateIdle
  /\ val \in RawValues
  /\ formatted = "no"
  /\ numericField = Zero
  /\ idField = Zero

\* formatAccident on a row whose serialNO and road_id columns hold val,
\* lines 256 and 262
FormatAccidentFields ==
  /\ formatted = "no"
  /\ numericField' = formatAccident_parseNumeric(val)
  /\ idField' = formatAccident_parseId(val)
  /\ formatted' = "accident"
  /\ UNCHANGED <<val, mainVars, dateVars>>

\* formatVehicle on a row whose insuranceWarrantyLimit and color_id columns
\* hold val, lines 336 and 376
FormatVehicleFields ==
  /\ formatted = "no"
  /\ numericField' = formatVehicle_parseNumeric(val)
  /\ idField' = formatVehicle_parseId(val)
  /\ formatted' = "vehicle"
  /\ UNCHANGED <<val, mainVars, dateVars>>

NextFormat == FormatAccidentFields \/ FormatVehicleFields

SpecFormat == InitFormat /\ [][NextFormat]_vars

\* ---- convertJalaliToGregorian on one date text ----
Y1398 == <<"1", "3", "9", "8">>
DateTexts ==
  {<<<<"0", "4">>, <<"1", "1">>, Y1398>>,
   <<<<"1", "0">>, <<"1", "0">>, Y1398>>,
   <<<<"1", "2">>, <<"0", "9">>, Y1398>>,
   <<<<"1", "2">>, <<"2", "9">>, Y1398>>,
   <<<<"1", "3">>, <<"1", "1">>, Y1398>>,
   <<<<"1", "3">>, <<"1", "3">>, Y1398>>,
   <<<<"1">>, <<"1">>, <<"1", "3", "9", "9">>>>,
   <<<<"0", "4">>, <<"1", "1">>, <<"1", "4", "8", "0">>>>}
HourTexts ==
  {<<"0">>, <<"5">>, <<"0", "5">>, <<"1", "2">>, <<"1", "3">>, <<"2", "3">>, <<"2", "4">>,
   <<"9", "9">>}
MinuteTexts == {<<"0", "0">>, <<"5">>, <<"5", "9">>, <<"6", "0">>, <<"9", "9">>}
SecondTexts == {<<"0", "0">>, <<"5", "9">>, <<"6", "0">>}
Markers == {"", "AM", "PM", "pm"}
TimeMatches ==
  {NoTime} \cup {TimeGroups(h, m, s, k) :
                   h \in HourTexts, m \in MinuteTexts, s \in SecondTexts, k \in Markers}

InitDate ==
  /\ InitMain
  /\ NumIdle
  /\ dateOnly \in DateTexts
  /\ timeMatch \in TimeMatches
  /\ converted = "no"
  /\ resultDateOnly = NoResult
  /\ resultWithTime = NoResult

\* the date portion alone: timeString is empty, line 178
ConvertDateOnly ==
  /\ converted = "no"
  /\ resultDateOnly' = convertJalaliToGregorian(dateOnly, NoTime)
  /\ converted' = "date"
  /\ UNCHANGED <<dateOnly, timeMatch, resultWithTime, mainVars, numVars>>

\* the date portion followed by the time portion
ConvertWithTime ==
  /\ converted = "date"
  /\ resultWithTime' = convertJalaliToGregorian(dateOnly, timeMatch)
  /\ converted' = "time"
  /\ UNCHANGED <<dateOnly, timeMatch, resultDateOnly, mainVars, numVars>>

NextDate == ConvertDateOnly \/ ConvertWithTime

SpecDate == InitDate /\ [][NextDate]_vars

\* ======================= properties =======================
Range(q) == {q[i] : i \in 1..Len(q)}
IsElement(chunk) == chunk.kind = "json"
Elements(chunks) == SelectSeq(chunks, IsElement)
\* the accident object an emitted element holds
AccidentOf(chunk) == chunk.value.accident_json.value
RowsOf(list) == [i \in 1..Len(list) |-> list[i].row]
\* the positions, in source order, of the rows of data whose trimmed key
\* is not empty and equals K
MatchingRows(data, field, K) ==
  LET keys == [i \in 1..Len(data) |-> Trim(data[i][field])]
  IN IF K = <<>> THEN <<>>
     ELSE SelectSeq([i \in 1..Len(data) |-> i], LAMBDA i : keys[i] = K)
\* the same, for every key at once
RowsByKey(data, field, keys) == [K \in keys |-> MatchingRows(data, field, K)]
AccidentKeys == {Trim(pulled[i].accident_id) : i \in 1..Len(pulled)}
OpeningText == Literal("[\n")
SeparatorText == Literal(",\n")
ClosingText == Literal("\n]\n")
RunSucceeded == pc = "done" /\ fatal = "none" /\ streamDone

\* C1: a run that completes the loop over N rows without a failure has
\* written exactly "[\n", the N envelopes in arrival order with ",\n"
\* between consecutive ones only, then "\n]\n".
C1_ArrayFraming ==
  RunSucceeded =>
    LET N == Len(pulled) IN
      /\ Len(written) = (IF N = 0 THEN 2 ELSE 2 * N + 1)
      /\ written[1] = OpeningText
      /\ written[Len(written)] = ClosingText
      /\ \A i \in 1..N : /\ IsElement(written[2 * i])
                         /\ AccidentOf(written[2 * i]).row = i
      /\ \A i \in 1..(N - 1) : written[2 * i + 1] = SeparatorText

C1_Witness == RunSucceeded /\ Len(pulled) = 2

\* C2: every emitted accident with trimmed identifier K carries, in source
\* order, exactly the vehicle rows and exactly the pedestrian rows whose
\* trimmed join key is not empty and equals K.
C2_JoinCorrect ==
  LET vehicleRows == RowsByKey(vehiclesData, "vehicle_id", AccidentKeys)
      pedestrianRows == RowsByKey(pedestriansData, "pedestrian_id", AccidentKeys)
  IN \A n \in 1..Len(written) :
       IsElement(written[n]) =>
         LET accident == AccidentOf(written[n])
             K == Trim(pulled[accident.row].accident_id)
         IN /\ RowsOf(accident.vehicleDTOS) = vehicleRows[K]
            /\ RowsOf(accident.pedestrianDTOS) = pedestrianRows[K]

C2_Witness ==
  /\ Len(Elements(written)) = 2
  /\ pulled[1].accident_id = pulled[2].accident_id
  /\ \A n \in 1..2 : /\ Len(AccidentOf(Elements(written)[n]).vehicleDTOS) = 1
                     /\ Len(AccidentOf(Elements(written)[n]).pedestrianDTOS) = 1
  /\ \E i \in 1..Len(vehiclesData) : Trim(vehiclesData[i].vehicle_id) = <<>>

C4_FatalExitsNonZero ==
  (pc = "done" /\ fatal \in {"missingInput", "lookupLoad", "write"}) =>
    (exitStatus # 0 /\ console # <<>>)

\* C5: the closing "\n]\n" is in the output only when the stream was read to
\* its end and every element was written; a run that failed never wrote it.
C5_ClosingOnlyOnSuccess ==
  ClosingText \in Range(written) =>
    /\ fatal = "none"
    /\ streamDone
    /\ Len(Elements(written)) = Len(pulled)

C5_Witness ==
  pc = "done" /\ fatal \in {"read", "write"} /\ Len(Elements(written)) = 1

\* C6: the output exists, or anything is written to it, only after all four
\* files were found and the three lookup maps were built, and at the moment
\* it is created the maps hold every row with a non-blank key; a run that
\* ends on a missing file or a failed child load made no output and read no
\* accident.
LookupBuilt(map, data, field) ==
  /\ DOMAIN map = {Trim(data[i][field]) : i \in 1..Len(data)} \ {<<>>}
  /\ \A k \in DOMAIN map : RowsOf(map[k]) = MatchingRows(data, field, k)

OutputTouched == outputFile # "none" \/ written # <<>> \/ inflight # <<>>

C6_OutputAfterLookups ==
  /\ OutputTouched =>
       /\ missing = {}
       /\ pc \notin {"checkFiles", "loadVehicles", "loadPassengers", "loadPedestrians",
                     "buildLookups"}
  /\ (outputFile = "open" /\ pc = "writeOpen") =>
       /\ LookupBuilt(vehiclesByAccidentId, vehiclesData, "vehicle_id")
       /\ LookupBuilt(passengersByAccidentId, passengersData, "passenger_id")
       /\ LookupBuilt(pedestriansByAccidentId, pedestriansData, "pedestrian_id")
  /\ fatal \in {"missingInput", "lookupLoad"} =>
       ~OutputTouched /\ readCount = 0 /\ pulled = <<>>

C6_Witness ==
  /\ pc = "done" /\ fatal = "lookupLoad"
  /\ Len(vehiclesData) = 2 /\ Len(passengersData) = 1 /\ ~OutputTouched

\* C7: once the sink is open it is closed exactly once on every way main
\* ends, and no write is issued on a sink that is not open.
C7_ClosedExactlyOnce ==
  /\ closeCount <= 1
  /\ (outputFile = "closed") = (closeCount = 1)
  /\ (pc = "done" /\ outputFile # "none") => closeCount = 1
  /\ outputFile = "closed" => inflight = <<>>
  /\ ~badWrite

C7_Witness ==
  pc = "done" /\ fatal = "write" /\ closeCount = 1 /\ Len(pulled) = 2

\* main has built the lookup maps and is past line 474
AfterBuild ==
  pc \notin {"checkFiles", "loadVehicles", "loadPassengers", "loadPedestrians", "buildLookups"}

\* C9 as stated: once built, the three lookup maps and the entities they
\* hold never change while accident rows are processed.
C9_LookupsReadOnly ==
  [][AfterBuild =>
       UNCHANGED <<vehiclesByAccidentId, passengersByAccidentId, pedestriansByAccidentId>>]_vars

\* C9, amended: once built, the passenger and pedestrian maps never change,
\* and the vehicle map keeps its keys and the length and order of its lists;
\* a vehicle entity changes only during the merge of an accident with its
\* key, and only by gaining passengerDTOS (the passengers of the key at
\* index 0, an empty list elsewhere) and losing accident_id and vehicle_id.
C9_OnlyVehiclesChangeInPlace ==
  [][AfterBuild =>
       /\ UNCHANGED <<passengersByAccidentId, pedestriansByAccidentId>>
       /\ DOMAIN vehiclesByAccidentId' = DOMAIN vehiclesByAccidentId
       /\ \A k \in DOMAIN vehiclesByAccidentId :
            /\ Len(vehiclesByAccidentId'[k]) = Len(vehiclesByAccidentId[k])
            /\ \A i \in 1..Len(vehiclesByAccidentId[k]) :
                 \/ vehiclesByAccidentId'[k][i] = vehiclesByAccidentId[k][i]
                 \/ /\ pc = "merge"
                    /\ k = Trim(pulled[Len(pulled)].accident_id)
                    /\ vehiclesByAccidentId'[k][i] =
                         [row |-> vehiclesByAccidentId[k][i].row,
                          passengerDTOS |-> IF i = 1 THEN GetOrEmpty(passengersByAccidentId, k)
                                                     ELSE <<>>]]_vars

C9_Witness ==
  /\ pc = "done"
  /\ passengersByAccidentId # EmptyMap
  /\ \E k \in DOMAIN vehiclesByAccidentId :
       /\ Len(vehiclesByAccidentId[k]) = 2
       /\ \A i \in 1..2 : DOMAIN vehiclesByAccidentId[k][i] = {"row", "passengerDTOS"}
       /\ vehiclesByAccidentId[k][1].passengerDTOS # <<>>

\* C10: a row is pulled only when no write is pending and every earlier
\* row's element is in the output; rows arrive in order, and at no time is
\* more than one write pending or more than one pulled row unwritten.
PendingRows == Len(pulled) - Len(Elements(written))

C10_OneRowAtATime ==
  [][/\ pulled' # pulled =>
          /\ inflight = <<>>
          /\ PendingRows = 0
          /\ Len(pulled') = Len(pulled) + 1
          /\ SubSeq(pulled', 1, Len(pulled)) = pulled
          /\ pulled'[Len(pulled')].row = Len(pulled')
     /\ Len(inflight') <= 1
     /\ PendingRows' \in {0, 1}]_vars

C10_Witness ==
  /\ Len(pulled) = 2
  /\ Len(Elements(written)) = 1
  /\ inflight # <<>>
  /\ IsElement(Head(inflight))
  /\ AccidentOf(Head(inflight)).row = 2

\* ---- what a raw text is, read as a whole ----
CountOf(s, c) == Cardinality({i \in 1..Len(s) : s[i] = c})
Unsigned(s) == IF s # <<>> /\ Head(s) \in {"+", "-"} THEN Tail(s) ELSE s
\* an optional sign, then digits with at most one point, one digit at least
IsDecimalLiteral(s) ==
  /\ \A i \in 1..Len(Unsigned(s)) : IsDigit(Unsigned(s)[i]) \/ Unsigned(s)[i] = "."
  /\ CountOf(Unsigned(s), ".") <= 1
  /\ \E i \in 1..Len(Unsigned(s)) : IsDigit(Unsigned(s)[i])
\* an optional sign, then one digit or more
IsIntegerLiteral(s) ==
  /\ Unsigned(s) # <<>>
  /\ \A i \in 1..Len(Unsigned(s)) : IsDigit(Unsigned(s)[i])
\* the text, white space around it aside, is a number and nothing else
IsWhollyNumber(v) == v.defined /\ IsDecimalLiteral(Trim(v.text))
IsWhollyInteger(v) == v.defined /\ IsIntegerLiteral(Trim(v.text))

\* the number a literal denotes
LiteralValue(s) ==
  LET u == Unsigned(s)
      point == IF CountOf(u, ".") = 0 THEN Len(u) + 1
               ELSE CHOOSE i \in 1..Len(u) : u[i] = "."
      digits == SelectSeq(u, IsDigit)
      mag == DigitsValue(digits)
  IN Number(IF s[1] = "-" THEN 0 - mag ELSE mag, IF point > Len(u) THEN 0 ELSE point - Len(u))

\* the length of the longest prefix of t that is a literal of the given kind
LongestDecimalPrefix(t) ==
  IF \E n \in 1..Len(t) : IsDecimalLiteral(SubSeq(t, 1, n))
  THEN CHOOSE n \in 1..Len(t) :
         /\ IsDecimalLiteral(SubSeq(t, 1, n))
         /\ \A k \in (n + 1)..Len(t) : ~IsDecimalLiteral(SubSeq(t, 1, k))
  ELSE 0
LongestIntegerPrefix(t) ==
  IF \E n \in 1..Len(t) : IsIntegerLiteral(SubSeq(t, 1, n))
  THEN CHOOSE n \in 1..Len(t) :
         /\ IsIntegerLiteral(SubSeq(t, 1, n))
         /\ \A k \in (n + 1)..Len(t) : ~IsIntegerLiteral(SubSeq(t, 1, k))
  ELSE 0

LeadingDecimal(v) ==
  IF ~v.defined \/ LongestDecimalPrefix(TrimStart(v.text)) = 0 THEN Zero
  ELSE LiteralValue(SubSeq(TrimStart(v.text), 1, LongestDecimalPrefix(TrimStart(v.text))))
LeadingInteger(v) ==
  IF ~v.defined \/ LongestIntegerPrefix(TrimStart(v.text)) = 0 THEN Zero
  ELSE LiteralValue(SubSeq(TrimStart(v.text), 1, LongestIntegerPrefix(TrimStart(v.text))))

C11_TimeKeepsDate ==
  (converted = "time" /\ timeMatch.matched /\ resultDateOnly.kind = "date") =>
    /\ resultWithTime.kind = "date"
    /\ resultWithTime.month = resultDateOnly.month
    /\ resultWithTime.day = resultDateOnly.day
    /\ resultWithTime.year = resultDateOnly.year
    /\ (DigitsValue(timeMatch.h) \in 1..12 /\ timeMatch.marker # "") =>
         /\ resultWithTime.hours = DigitsValue(timeMatch.h)
         /\ DigitsValue(resultWithTime.minutes) = DigitsValue(timeMatch.m)
         /\ DigitsValue(resultWithTime.seconds) = DigitsValue(timeMatch.s)
         /\ resultWithTime.ampm = toUpperCase(timeMatch.marker)

====
